---- MODULE Spec2Model ----
(***************************************************************************)
(* Model of src/transcribe.py: the transcription manager                   *)
(* (transcribe_audio_manager), the direct path                             *)
(* (_transcribe_single_audio_file) and the split path                      *)
(* (_split_and_transcribe_audio).                                          *)
(*                                                                         *)
(* Under Spec one behaviour is one call of transcribe_audio_manager;       *)
(* SpecPlan is the chunk-length computation on its own, SpecNames the      *)
(* derivation of scratch and chunk file names from asset paths, SpecBatch  *)
(* the loop of process_youtube_links_file around the manager.  The file    *)
(* system, the audio decoder and the remote transcription service are the  *)
(* environment: their outcomes are chosen with \E at the step that reads   *)
(* them.  Text is a sequence of one-character strings; Python's None and   *)
(* a Python str are the two shapes of a Value record.                      *)
(*                                                                         *)
(* Every call that stands inside no try block may raise, and the           *)
(* exception leaves the function at once, pc = "RAISED": the client        *)
(* constructor (line 119), os.makedirs (137), shutil.rmtree in the early   *)
(* returns (144, 150, 158), make_chunks (163) and os.path.getsize (176,    *)
(* 206).  A removal whose failure the code passes over (lines 178, 183,    *)
(* 192) may fail and then leaves the file or the directory where it is.    *)
(* A run may find its scratch directory on disk already, as an earlier     *)
(* run over the same asset has left it.                                    *)
(***************************************************************************)
EXTENDS Integers, Sequences, FiniteSets

\* ------------------------------------------------------------ configuration
WHISPER_API_FILE_SIZE_LIMIT == 25 * 1024 * 1024
SAFE_CHUNK_SIZE_BYTES == 24 * 1024 * 1024
MP3_BITRATE_KBPS == 192

\* ------------------------------------------------------------------- bounds
\* the longest audio that is loaded yields MaxChunks chunks
MaxChunks == 3

\* --------------------------------------------------------------- values
NoneVal == [kind |-> "None", text |-> <<>>]
Str(s) == [kind |-> "str", text |-> s]
IsNone(v) == v.kind = "None"
\* the caller has been handed nothing yet
Pending == [kind |-> "pending", text |-> <<>>]

\* texts the transcription service may answer with (the empty text included)
Texts == {<<>>, <<"a">>, <<"b", "c">>}
\* what _transcribe_single_audio_file returns: the text, or None on any error
Responses == {NoneVal} \cup {Str(t) : t \in Texts}

\* a join that puts the parts in reverse order
RECURSIVE Join_reversed(_)
Join_reversed(parts) ==
    IF Len(parts) = 0 THEN <<>>
    ELSE IF Len(parts) = 1 THEN parts[1]
    ELSE Join_reversed(Tail(parts)) \o <<" ">> \o parts[1]

\* " ".join(parts)
RECURSIVE Join(_)
Join(parts) ==
    IF Len(parts) = 0 THEN <<>>
    ELSE IF Len(parts) = 1 THEN parts[1]
    ELSE parts[1] \o <<" ">> \o Join(Tail(parts))

\* a decision that compares with the hard limit itself, without the 2% margin
Decide_no_margin(file_size) ==
    IF file_size < WHISPER_API_FILE_SIZE_LIMIT THEN "DIRECT" ELSE "SPLIT"

\* file_size < WHISPER_API_FILE_SIZE_LIMIT * 0.98   (0.98 = 49/50; the float
\* product is exactly 25690112.0)
Decide(file_size) ==
    IF file_size < (WHISPER_API_FILE_SIZE_LIMIT * 49) \div 50 THEN "DIRECT" ELSE "SPLIT"

\* ---- binary floating point (IEEE 754 double, round to nearest even), as
\* ---- Python computes line 153 and line 154 in it
\* natural numbers of any size: little-endian sequences of digits to the
\* base LimbBase, without leading zero digits; <<>> is zero
LimbBits == 14
LimbBase == 16384
\* the bits of a double's significand
SignificandBits == 53
\* the division computes its quotient with this many extra binary places
DivisionShift == 70

RECURSIVE Pow2(_)
Pow2(n) == IF n = 0 THEN 1 ELSE 2 * Pow2(n - 1)

RECURSIVE BigNorm(_)
BigNorm(a) ==
    IF Len(a) = 0 THEN a
    ELSE IF a[Len(a)] = 0 THEN BigNorm(SubSeq(a, 1, Len(a) - 1))
    ELSE a

RECURSIVE BigFromInt(_)
BigFromInt(n) == IF n = 0 THEN <<>> ELSE <<n % LimbBase>> \o BigFromInt(n \div LimbBase)

RECURSIVE BigToInt(_)
BigToInt(a) == IF Len(a) = 0 THEN 0 ELSE a[1] + LimbBase * BigToInt(Tail(a))

RECURSIVE BigAddCarry(_, _, _)
BigAddCarry(a, b, carry) ==
    IF Len(a) = 0 /\ Len(b) = 0
      THEN IF carry = 0 THEN <<>> ELSE <<carry>>
      ELSE LET t == (IF Len(a) = 0 THEN 0 ELSE a[1]) + (IF Len(b) = 0 THEN 0 ELSE b[1]) + carry
           IN <<t % LimbBase>> \o BigAddCarry(IF Len(a) = 0 THEN a ELSE Tail(a),
                                               IF Len(b) = 0 THEN b ELSE Tail(b),
                                               t \div LimbBase)

BigAdd(a, b) == BigAddCarry(a, b, 0)

\* a times k, for 0 <= k < 2^16
RECURSIVE BigMulSmallCarry(_, _, _)
BigMulSmallCarry(a, k, carry) ==
    IF Len(a) = 0
      THEN IF carry = 0 THEN <<>>
           ELSE <<carry % LimbBase>> \o BigMulSmallCarry(a, k, carry \div LimbBase)
      ELSE LET t == a[1] * k + carry
           IN <<t % LimbBase>> \o BigMulSmallCarry(Tail(a), k, t \div LimbBase)

BigMulSmall(a, k) == BigNorm(BigMulSmallCarry(a, k, 0))

RECURSIVE BigMul(_, _)
BigMul(a, b) ==
    IF Len(a) = 0 \/ Len(b) = 0 THEN <<>>
    ELSE LET rest == BigMul(a, Tail(b))
         IN BigAdd(BigMulSmall(a, b[1]), IF Len(rest) = 0 THEN rest ELSE <<0>> \o rest)

\* quotient and remainder of a by d, for 0 < d <= 2^17; digits k..1 of a are
\* still to be divided and r is the remainder so far
RECURSIVE BigDivSmallFrom(_, _, _, _)
BigDivSmallFrom(a, d, k, r) ==
    IF k = 0 THEN [q |-> <<>>, r |-> r]
    ELSE LET cur == r * LimbBase + a[k]
             rest == BigDivSmallFrom(a, d, k - 1, cur % d)
         IN [q |-> rest.q \o <<cur \div d>>, r |-> rest.r]

BigDivSmall(a, d) ==
    LET qr == BigDivSmallFrom(a, d, Len(a), 0)
    IN [q |-> BigNorm(qr.q), r |-> qr.r]

RECURSIVE IntBitLen(_)
IntBitLen(n) == IF n = 0 THEN 0 ELSE 1 + IntBitLen(n \div 2)

BigBitLen(a) ==
    IF Len(a) = 0 THEN 0 ELSE (Len(a) - 1) * LimbBits + IntBitLen(a[Len(a)])

BigShiftLeft(a, s) ==
    IF Len(a) = 0 THEN a
    ELSE [k \in 1..(s \div LimbBits) |-> 0] \o BigMulSmall(a, Pow2(s % LimbBits))

BigShiftRight(a, s) ==
    LET hi == SubSeq(a, s \div LimbBits + 1, Len(a))
    IN IF s % LimbBits = 0 THEN hi ELSE BigDivSmall(hi, Pow2(s % LimbBits)).q

BigIsOdd(a) == Len(a) > 0 /\ a[1] % 2 = 1

\* the natural number a, with inexact telling that bits below it were already
\* dropped, rounded to a significand of 53 bits: a is about m * 2^sh
RoundToSignificand(a, inexact) ==
    LET len == BigBitLen(a)
    IN IF len <= SignificandBits
         THEN [m |-> BigShiftLeft(a, SignificandBits - len), sh |-> len - SignificandBits]
         ELSE LET s == len - SignificandBits
                  with_guard == BigShiftRight(a, s - 1)
                  q == BigShiftRight(with_guard, 1)
                  sticky == inexact \/ BigShiftLeft(with_guard, s - 1) # a
                  up == BigIsOdd(with_guard) /\ (sticky \/ BigIsOdd(q))
                  r == IF up THEN BigAdd(q, <<1>>) ELSE q
              IN IF BigBitLen(r) > SignificandBits
                   THEN [m |-> BigShiftRight(r, 1), sh |-> s + 1]
                   ELSE [m |-> r, sh |-> s]

\* the double nearest to n / d, for integers n >= 1 and 1 <= d <= 2^17: the
\* value is m * 2^e
FloatDiv(n, d) ==
    LET qr == BigDivSmall(BigShiftLeft(BigFromInt(n), DivisionShift), d)
        rounded == RoundToSignificand(qr.q, qr.r # 0)
    IN [m |-> rounded.m, e |-> rounded.sh - DivisionShift]

\* the double nearest to the product of two doubles
FloatMul(x, y) ==
    LET rounded == RoundToSignificand(BigMul(x.m, y.m), FALSE)
    IN [m |-> rounded.m, e |-> x.e + y.e + rounded.sh]

\* int(x) for a positive double below 2^31
FloatToInt(x) ==
    IF x.e >= 0 THEN BigToInt(BigShiftLeft(x.m, x.e))
    ELSE IF 0 - x.e >= SignificandBits THEN 0
    ELSE BigToInt(BigShiftRight(x.m, 0 - x.e))

\* the literal 0.95 of line 153
SafetyFactor == FloatDiv(19, 20)
\* the 1000 of line 154
MsPerSecond == FloatDiv(1000, 1)

\* bytes_per_second_audio = (bitrate * 1000) / 8.0, an integer that the
\* double holds exactly
BytesPerSecond(bitrate) == bitrate * 125

\* a chunk length without the 5% safety margin
ChunkLengthMs_no_margin(budget, bitrate) == (budget * 40) \div (bitrate * 5)

\* lines 153-154: int(((budget / bytes_per_second) * 0.95) * 1000), each
\* operation rounded as a double.  Where budget * 38 is no multiple of
\* bitrate * 5 this is floor(budget * 38 / (bitrate * 5)); where it is one the
\* rounded product can fall just under the integer and int() gives one
\* millisecond less (budget 26880 at 128 kbit/s: 1595, not 1596).  Line 148
\* has returned before this for a bitrate that is not positive; the operator
\* gives 0 there and for a budget of 0.
ChunkLengthMs(budget, bitrate) ==
    IF budget <= 0 \/ bitrate <= 0 THEN 0
    ELSE FloatToInt(FloatMul(FloatMul(FloatDiv(budget, BytesPerSecond(bitrate)),
                                      SafetyFactor),
                             MsPerSecond))

\* a plan that accepts a chunk length of exactly one second
PlanRejected_under_1000(budget, bitrate) ==
    \/ BytesPerSecond(bitrate) <= 0
    \/ ChunkLengthMs(budget, bitrate) < 1000

\* lines 148 and 156: the plan is rejected
PlanRejected(budget, bitrate) ==
    \/ BytesPerSecond(bitrate) <= 0
    \/ ChunkLengthMs(budget, bitrate) <= 1000

\* pydub.utils.make_chunks: ceil(len(audio) / chunk_length) slices
NumChunks(len_ms, chunk_length) == (len_ms + chunk_length - 1) \div chunk_length

\* a size test that lets a chunk of exactly the hard limit through
TooLarge_strict(size) == size > WHISPER_API_FILE_SIZE_LIMIT

\* line 176: the exported chunk is too large to submit
TooLarge(size) == size >= WHISPER_API_FILE_SIZE_LIMIT

\* a size test without its break: the oversized chunk is submitted all the same
AfterSizeCheck_no_break(too_large) == "SUBMIT"

\* lines 176-182: break after an oversized chunk, else go on to submit it
AfterSizeCheck(too_large) == IF too_large THEN "CLEANUP" ELSE "SUBMIT"

\* a removal that leaves the file where it is
RemoveFile_keep(fs, idx, ok) == fs

\* try: os.remove(chunk_filename) / except OSError (lines 177-179, 183-184):
\* the file is gone when the removal succeeded and stays when it failed
RemoveFile(fs, idx, ok) == IF ok THEN {f \in fs : f.idx # idx} ELSE fs

\* export writes the file of chunk idx, over a file of that name if there
\* is one (line 171)
WriteFile(fs, idx, size) ==
    {f \in fs : f.idx # idx} \cup {[idx |-> idx, size |-> size, old |-> FALSE]}

\* a loop that goes on to the next chunk after a failed transcription
BreakOnPart_never(transcription_part) == FALSE

\* the break / continue decision of lines 186-189
BreakOnPart(transcription_part) == IsNone(transcription_part)

\* a return that forgets the success flag and joins whatever was collected
ReturnValue_ignore_flag(ok, parts) ==
    IF Len(parts) > 0 THEN Str(Join(parts)) ELSE NoneVal

\* a return that joins unconditionally: the empty string stands in for failure
ReturnValue_empty_string(ok, parts) == Str(IF ok THEN Join(parts) ELSE <<>>)

\* a return without the test for an empty list of parts
ReturnValue_join_empty(ok, parts) == IF ~ok THEN NoneVal ELSE Str(Join(parts))

\* lines 195-197
ReturnValue(ok, parts) ==
    IF ~ok THEN NoneVal
    ELSE IF Len(parts) > 0 THEN Str(Join(parts)) ELSE NoneVal

\* a direct path that turns a failed call into the empty string
DirectResult_empty_on_failure(r) == IF IsNone(r) THEN Str(<<>>) ELSE r

\* line 209: the manager returns what the single call returned
DirectResult(r) == r

\* a loop that takes the same chunk again
NextIndex_retry(idx) == idx

\* line 167: enumerate hands out the next index
NextIndex(idx) == idx + 1

\* an export failure without its break: the loop goes on to the size test
AfterExport_no_break(ok) == "SIZECHECK"

\* lines 170-176: break after a failed export, else go on to the size test
AfterExport(ok) == IF ok THEN "SIZECHECK" ELSE "CLEANUP"

\* ------------------------------------------------------------ input sets
\* the configuration section as shipped; with a zero and with a negative
\* bitrate; with byte budgets that give chunks of 950 ms, of exactly
\* 1000 ms and of 1001 ms; and two in which budget * 38 / (bitrate * 5) is
\* an integer (1001 and 1596) and the doubles of line 153 come to one
\* millisecond less
Configs ==
    { [bitrate |-> MP3_BITRATE_KBPS, budget |-> SAFE_CHUNK_SIZE_BYTES],
      [bitrate |-> 0,                budget |-> SAFE_CHUNK_SIZE_BYTES],
      [bitrate |-> -8,               budget |-> SAFE_CHUNK_SIZE_BYTES],
      [bitrate |-> MP3_BITRATE_KBPS, budget |-> 24000],
      [bitrate |-> MP3_BITRATE_KBPS, budget |-> 25264],
      [bitrate |-> MP3_BITRATE_KBPS, budget |-> 25290],
      [bitrate |-> 38,               budget |-> 5005],
      [bitrate |-> 128,              budget |-> 26880] }

FileSizes ==
    { 10485760,
      (WHISPER_API_FILE_SIZE_LIMIT * 49) \div 50 - 1,
      (WHISPER_API_FILE_SIZE_LIMIT * 49) \div 50,
      WHISPER_API_FILE_SIZE_LIMIT - 1,
      WHISPER_API_FILE_SIZE_LIMIT,
      31457280 }

\* on-disk sizes an exported chunk may have
ChunkSizes ==
    { WHISPER_API_FILE_SIZE_LIMIT - 1, WHISPER_API_FILE_SIZE_LIMIT,
      WHISPER_API_FILE_SIZE_LIMIT + 1 }

\* lengths of the decoded audio, around the multiples of the chunk length
Durations(chunk_length) ==
    {k * chunk_length + d : k \in 0..(MaxChunks - 1), d \in {0, 1}}
        \cup {MaxChunks * chunk_length}

\* the lengths a run under configuration c may find the audio to have: around
\* the multiples of its own chunk length, or of the shipped one when its plan
\* is rejected
AudioLengths(c) ==
    Durations(IF PlanRejected(c.budget, c.bitrate)
                THEN ChunkLengthMs(SAFE_CHUNK_SIZE_BYTES, MP3_BITRATE_KBPS)
                ELSE ChunkLengthMs(c.budget, c.bitrate))

\* the whole asset, as the subject of a transcription call; the scratch
\* directory, as the subject of a removal
Whole == -1

\* what the scratch directory may hold when a run starts and the directory
\* is there already (makedirs(exist_ok=True) on line 137 takes it as it is):
\* nothing, or a chunk file that an earlier run has left
StaleFileSets == {{}, {[idx |-> 1, size |-> 5, old |-> TRUE]}}

\* ------------------------------------------------------------------ state
VARIABLES
    pc,          \* position in the code
    cfg,         \* the configuration section
    key_given,   \* openai_api_key is truthy
    path_exists, \* audio_file_path is set and the file exists
    file_size,   \* os.path.getsize(audio_file_path)
    dir_exists,  \* chunks_subfolder exists on disk
    files,       \* chunk files in chunks_subfolder: [idx, size]
    audio_len,   \* len(audio) in ms, once loaded
    chunk_len,   \* chunk_length_ms
    n_chunks,    \* len(audio_chunks)
    i,           \* loop index
    parts,       \* full_transcription_parts
    all_ok,      \* all_chunks_processed_successfully
    part,        \* transcription_part
    chunk_size,  \* os.path.getsize(chunk_filename), as read on line 176
    route,       \* the branch taken on line 207: "DIRECT" or "SPLIT"
    inflight,    \* subjects of transcription calls that have not returned
    calls,       \* log of returned transcription calls: [idx, size, ret]
    exports,     \* log of chunk indices handed to export
    fail_kind,   \* why the run failed, "none" while it has not
    result,      \* the value returned to the caller
    removals,    \* log of the removals whose failure is swallowed (lines
                 \* 178, 183, 192): [what, ok], what a chunk index or Whole
    \* the planner's arithmetic on its own (lines 147-159)
    p_pc,        \* "idle", "input", "accepted" or "rejected"
    p_budget,    \* the byte budget per chunk
    p_bitrate,   \* the assumed bitrate, kbit/s
    p_ms,        \* chunk_length_ms, once computed
    \* the names two runs derive from their asset paths (lines 134-136, 168)
    nm_pc,       \* "idle", "input" or "derived"
    path_a,      \* full_audio_path of one run
    path_b,      \* full_audio_path of the other run
    dir_a,       \* chunks_subfolder of the one
    dir_b,       \* chunks_subfolder of the other
    \* process_youtube_links_file, lines 245-268
    b_pc,        \* "idle", "LOOP", "RUNNING", "FINISHED" or "ABORTED"
    b_key,       \* current_openai_api_key is not empty
    n_urls,      \* len(urls)
    url_i,       \* the loop index of line 245
    audio_files, \* the URLs whose download has left an audio file on disk
    saved,       \* the URLs whose transcript was written
    outcomes     \* per URL handled: "skipped", "transcribed" or "failed"

run_vars == <<pc, cfg, key_given, path_exists, file_size, dir_exists, files,
              audio_len, chunk_len, n_chunks, i, parts, all_ok, part,
              chunk_size, route, inflight, calls, exports, fail_kind, result,
              removals>>
plan_vars == <<p_pc, p_budget, p_bitrate, p_ms>>
\* what a run of the manager leaves alone
name_vars == <<nm_pc, path_a, path_b, dir_a, dir_b>>
batch_vars == <<b_pc, b_key, n_urls, url_i, audio_files, saved, outcomes>>
side_vars == <<plan_vars, name_vars, batch_vars>>
vars == <<run_vars, side_vars>>

\* the planner on its own is not in use
PlanIdle == p_pc = "idle" /\ p_budget = 0 /\ p_bitrate = 0 /\ p_ms = 0
\* no batch is being processed
BatchIdle ==
    /\ b_pc = "idle" /\ b_key = TRUE /\ n_urls = 0 /\ url_i = 0
    /\ audio_files = {} /\ saved = {} /\ outcomes = <<>>
\* no names are being derived
NamesIdle ==
    nm_pc = "idle" /\ path_a = <<>> /\ path_b = <<>> /\ dir_a = <<>> /\ dir_b = <<>>

Init ==
    /\ pc = "DECIDING"
    /\ cfg \in Configs
    /\ key_given \in BOOLEAN
    /\ path_exists \in BOOLEAN
    /\ file_size \in FileSizes
    /\ dir_exists \in BOOLEAN
    /\ files \in (IF dir_exists THEN StaleFileSets ELSE {{}})
    /\ audio_len = 0
    /\ chunk_len = 0
    /\ n_chunks = 0
    /\ i = 0
    /\ parts = <<>>
    /\ all_ok = TRUE
    /\ part = NoneVal
    /\ chunk_size = 0
    /\ route = "none"
    /\ inflight = {}
    /\ calls = <<>>
    /\ exports = <<>>
    /\ fail_kind = "none"
    /\ result = Pending
    /\ removals = <<>>
    /\ PlanIdle
    /\ NamesIdle
    /\ BatchIdle

\* ---------------------------------------------------------------- actions
\* transcribe_audio_manager, lines 201-212; os.path.getsize on line 206 is
\* inside no try block
Manager ==
    /\ pc = "DECIDING"
    /\ IF ~key_given
         THEN /\ pc' = "DONE_FAIL"
              /\ fail_kind' = "NoKey"
              /\ result' = NoneVal
              /\ UNCHANGED route
         ELSE IF ~path_exists
           THEN /\ pc' = "DONE_FAIL"
                /\ fail_kind' = "NoFile"
                /\ result' = NoneVal
                /\ UNCHANGED route
           ELSE \E raises \in BOOLEAN :
                  IF raises
                    THEN /\ pc' = "RAISED"
                         /\ fail_kind' = "Unexpected"
                         /\ UNCHANGED <<route, result>>
                    ELSE /\ route' = Decide(file_size)
                         /\ pc' = IF Decide(file_size) = "DIRECT" THEN "DIRECT" ELSE "SPLITTING"
                         /\ UNCHANGED <<fail_kind, result>>
    /\ UNCHANGED side_vars
    /\ UNCHANGED <<cfg, key_given, path_exists, file_size, dir_exists, files,
                   audio_len, chunk_len, n_chunks, i, parts, all_ok, part,
                   chunk_size, inflight, calls, exports, removals>>

\* line 209 -> lines 119-126: the client is made, outside the try block, and
\* the call on the whole asset is sent
DirectSubmit ==
    /\ pc = "DIRECT"
    /\ \E raises \in BOOLEAN :
        IF raises
          THEN /\ pc' = "RAISED"
               /\ fail_kind' = "Client"
               /\ UNCHANGED inflight
          ELSE /\ inflight' = inflight \cup {Whole}
               /\ pc' = "DIRECT_WAIT"
               /\ UNCHANGED fail_kind
    /\ UNCHANGED side_vars
    /\ UNCHANGED <<cfg, key_given, path_exists, file_size, dir_exists, files,
                   audio_len, chunk_len, n_chunks, i, parts, all_ok, part,
                   chunk_size, route, calls, exports, result, removals>>

\* lines 127-130 and 209: the call returns and its value is returned as is
DirectRespond ==
    /\ pc = "DIRECT_WAIT"
    /\ \E r \in Responses :
        /\ calls' = Append(calls, [idx |-> Whole, size |-> file_size, ret |-> r])
        /\ result' = DirectResult(r)
        /\ pc' = IF IsNone(DirectResult(r)) THEN "DONE_FAIL" ELSE "DONE_OK"
        /\ fail_kind' = IF IsNone(r) THEN "Transcription" ELSE fail_kind
    /\ inflight' = inflight \ {Whole}
    /\ UNCHANGED side_vars
    /\ UNCHANGED <<cfg, key_given, path_exists, file_size, dir_exists, files,
                   audio_len, chunk_len, n_chunks, i, parts, all_ok, part,
                   chunk_size, route, exports, removals>>

\* lines 134-137: os.makedirs(chunks_subfolder, exist_ok=True), inside no
\* try block; a directory that is there is taken as it is, one that cannot
\* be made leaves the function with the exception
PrepareScratch ==
    /\ pc = "SPLITTING"
    /\ \E raises \in BOOLEAN :
        IF raises /\ ~dir_exists
          THEN /\ pc' = "RAISED"
               /\ fail_kind' = "Makedirs"
               /\ UNCHANGED dir_exists
          ELSE /\ dir_exists' = TRUE
               /\ pc' = "LOAD"
               /\ UNCHANGED fail_kind
    /\ UNCHANGED side_vars
    /\ UNCHANGED <<cfg, key_given, path_exists, file_size, files, audio_len,
                   chunk_len, n_chunks, i, parts, all_ok, part, chunk_size,
                   route, inflight, calls, exports, result, removals>>

\* lines 144, 150, 158: if os.path.exists(dir): shutil.rmtree(dir), then
\* return None; the rmtree is inside no try block, so when it fails it leaves
\* the function with its exception, the directory and some of its files still
\* there
RemoveScratchAndFail(kind) ==
    /\ fail_kind' = kind
    /\ \E removed \in BOOLEAN, left \in SUBSET files :
        IF removed \/ ~dir_exists
          THEN /\ dir_exists' = FALSE
               /\ files' = {}
               /\ result' = NoneVal
               /\ pc' = "DONE_FAIL"
          ELSE /\ files' = left
               /\ pc' = "RAISED"
               /\ UNCHANGED <<dir_exists, result>>

\* lines 139-145: AudioSegment.from_mp3; on failure the scratch directory
\* is removed and None returned
LoadAudio ==
    /\ pc = "LOAD"
    /\ \E ok \in BOOLEAN,
          len_ms \in AudioLengths(cfg) :
        IF ok
          THEN /\ audio_len' = len_ms
               /\ pc' = "PLAN"
               /\ UNCHANGED <<dir_exists, files, fail_kind, result>>
          ELSE /\ RemoveScratchAndFail("Load")
               /\ UNCHANGED audio_len
    /\ UNCHANGED side_vars
    /\ UNCHANGED <<cfg, key_given, path_exists, file_size, chunk_len, n_chunks,
                   i, parts, all_ok, part, chunk_size, route, inflight, calls,
                   exports, removals>>

\* lines 147-161: the chunk length from the byte budget and the bitrate; on
\* rejection the scratch directory is removed and None returned
Plan ==
    /\ pc = "PLAN"
    /\ IF PlanRejected(cfg.budget, cfg.bitrate)
         THEN /\ RemoveScratchAndFail("Plan")
              /\ UNCHANGED chunk_len
         ELSE /\ chunk_len' = ChunkLengthMs(cfg.budget, cfg.bitrate)
              /\ pc' = "CHUNK"
              /\ UNCHANGED <<dir_exists, files, fail_kind, result>>
    /\ UNCHANGED side_vars
    /\ UNCHANGED <<cfg, key_given, path_exists, file_size, audio_len, n_chunks,
                   i, parts, all_ok, part, chunk_size, route, inflight, calls,
                   exports, removals>>

\* lines 163-167: make_chunks, which is inside no try block, and the loop
\* head; an exception leaves the function at once
MakeChunks ==
    /\ pc = "CHUNK"
    /\ \E raises \in BOOLEAN :
        IF raises
          THEN /\ pc' = "RAISED"
               /\ fail_kind' = "Unexpected"
               /\ UNCHANGED <<n_chunks, i, parts, all_ok>>
          ELSE /\ n_chunks' = NumChunks(audio_len, chunk_len)
               /\ i' = 0
               /\ parts' = <<>>
               /\ all_ok' = TRUE
               /\ pc' = IF NumChunks(audio_len, chunk_len) > 0 THEN "EXPORT" ELSE "CLEANUP"
               /\ UNCHANGED fail_kind
    /\ UNCHANGED side_vars
    /\ UNCHANGED <<cfg, key_given, path_exists, file_size, dir_exists, files,
                   audio_len, chunk_len, part, chunk_size, route, inflight,
                   calls, exports, result, removals>>

\* lines 168-174: export chunk i; a failed export may leave a partial file
Export ==
    /\ pc = "EXPORT"
    /\ exports' = Append(exports, i)
    /\ \E ok \in BOOLEAN, size \in ChunkSizes, partial \in BOOLEAN :
        IF ok
          THEN /\ files' = WriteFile(files, i, size)
               /\ pc' = AfterExport(TRUE)
               /\ UNCHANGED <<all_ok, fail_kind>>
          ELSE /\ files' = IF partial THEN WriteFile(files, i, 0) ELSE files
               /\ all_ok' = FALSE
               /\ fail_kind' = "Export"
               /\ pc' = AfterExport(FALSE)
    /\ UNCHANGED side_vars
    /\ UNCHANGED <<cfg, key_given, path_exists, file_size, dir_exists,
                   audio_len, chunk_len, n_chunks, i, parts, part, chunk_size,
                   route, inflight, calls, result, removals>>

\* chunk idx is on disk
HasFile(fs, idx) == \E f \in fs : f.idx = idx
\* the on-disk size of chunk idx
SizeOf(fs, idx) == (CHOOSE f \in fs : f.idx = idx).size

\* lines 176-180: os.path.getsize, which is inside no try block, and the
\* size test; an exception leaves the function at once.  The removal of an
\* oversized chunk may fail, which lines 178-179 pass over
SizeCheck ==
    /\ pc = "SIZECHECK"
    /\ \E raises \in BOOLEAN, removed \in BOOLEAN :
        IF raises \/ ~HasFile(files, i)
          THEN /\ pc' = "RAISED"
               /\ fail_kind' = "Unexpected"
               /\ UNCHANGED <<files, all_ok, chunk_size, removals>>
          ELSE /\ chunk_size' = SizeOf(files, i)
               /\ pc' = AfterSizeCheck(TooLarge(SizeOf(files, i)))
               /\ IF TooLarge(SizeOf(files, i))
                    THEN /\ files' = RemoveFile(files, i, removed)
                         /\ removals' = Append(removals, [what |-> i, ok |-> removed])
                         /\ all_ok' = FALSE
                         /\ fail_kind' = "Size"
                    ELSE UNCHANGED <<files, all_ok, fail_kind, removals>>
    /\ UNCHANGED side_vars
    /\ UNCHANGED <<cfg, key_given, path_exists, file_size, dir_exists,
                   audio_len, chunk_len, n_chunks, i, parts, part, route,
                   inflight, calls, exports, result>>

\* line 182 -> lines 119-126: the client is made, outside the try block, and
\* the call on chunk i is sent
ChunkSubmit ==
    /\ pc = "SUBMIT"
    /\ \E raises \in BOOLEAN :
        IF raises
          THEN /\ pc' = "RAISED"
               /\ fail_kind' = "Client"
               /\ UNCHANGED inflight
          ELSE /\ inflight' = inflight \cup {i}
               /\ pc' = "WAIT"
               /\ UNCHANGED fail_kind
    /\ UNCHANGED side_vars
    /\ UNCHANGED <<cfg, key_given, path_exists, file_size, dir_exists, files,
                   audio_len, chunk_len, n_chunks, i, parts, all_ok, part,
                   chunk_size, route, calls, exports, result, removals>>

\* lines 127-130 and 182: the call on chunk i returns; a chunk file that
\* cannot be opened makes it return None (lines 121, 128-130)
ChunkRespond ==
    /\ pc = "WAIT"
    /\ \E r \in Responses :
        /\ HasFile(files, i) \/ IsNone(r)
        /\ part' = r
        /\ calls' = Append(calls, [idx |-> i,
                                   size |-> IF HasFile(files, i) THEN SizeOf(files, i) ELSE 0,
                                   ret |-> r])
    /\ inflight' = inflight \ {i}
    /\ pc' = "DELETE"
    /\ UNCHANGED side_vars
    /\ UNCHANGED <<cfg, key_given, path_exists, file_size, dir_exists, files,
                   audio_len, chunk_len, n_chunks, i, parts, all_ok,
                   chunk_size, route, exports, fail_kind, result, removals>>

\* lines 183-184: the chunk file is removed; when the removal fails a
\* warning is printed and the file stays
DeleteChunk ==
    /\ pc = "DELETE"
    /\ \E removed \in BOOLEAN :
        /\ files' = RemoveFile(files, i, removed)
        /\ removals' = Append(removals, [what |-> i, ok |-> removed])
    /\ pc' = "CHECKPART"
    /\ UNCHANGED side_vars
    /\ UNCHANGED <<cfg, key_given, path_exists, file_size, dir_exists,
                   audio_len, chunk_len, n_chunks, i, parts, all_ok, part,
                   chunk_size, route, inflight, calls, exports, fail_kind,
                   result>>

\* lines 186-189 and the loop's next iteration: a None part sets the flag
\* and breaks, a text is appended
CheckPart ==
    /\ pc = "CHECKPART"
    /\ IF BreakOnPart(part)
         THEN /\ all_ok' = FALSE
              /\ fail_kind' = "Transcription"
              /\ pc' = "CLEANUP"
              /\ UNCHANGED <<parts, i>>
         ELSE /\ parts' = IF IsNone(part) THEN parts ELSE Append(parts, part.text)
              /\ i' = NextIndex(i)
              /\ pc' = IF NextIndex(i) < n_chunks THEN "EXPORT" ELSE "CLEANUP"
              /\ UNCHANGED <<all_ok, fail_kind>>
    /\ UNCHANGED side_vars
    /\ UNCHANGED <<cfg, key_given, path_exists, file_size, dir_exists, files,
                   audio_len, chunk_len, n_chunks, part, chunk_size, route,
                   inflight, calls, exports, result, removals>>

\* lines 191-193: shutil.rmtree(chunks_subfolder); when it fails a warning
\* is printed and the directory stays, with the files the rmtree had not yet
\* removed
Cleanup ==
    /\ pc = "CLEANUP"
    /\ IF dir_exists
         THEN \E removed \in BOOLEAN, left \in SUBSET files :
                /\ dir_exists' = ~removed
                /\ files' = IF removed THEN {} ELSE left
                /\ removals' = Append(removals, [what |-> Whole, ok |-> removed])
         ELSE UNCHANGED <<dir_exists, files, removals>>
    /\ pc' = "RETURN"
    /\ UNCHANGED side_vars
    /\ UNCHANGED <<cfg, key_given, path_exists, file_size, audio_len,
                   chunk_len, n_chunks, i, parts, all_ok, part, chunk_size,
                   route, inflight, calls, exports, fail_kind, result>>

\* lines 195-197
Return ==
    /\ pc = "RETURN"
    /\ result' = ReturnValue(all_ok, parts)
    /\ pc' = IF IsNone(ReturnValue(all_ok, parts)) THEN "DONE_FAIL" ELSE "DONE_OK"
    /\ fail_kind' = IF all_ok /\ IsNone(ReturnValue(all_ok, parts)) THEN "Empty" ELSE fail_kind
    /\ UNCHANGED side_vars
    /\ UNCHANGED <<cfg, key_given, path_exists, file_size, dir_exists, files,
                   audio_len, chunk_len, n_chunks, i, parts, all_ok, part,
                   chunk_size, route, inflight, calls, exports, removals>>

Next ==
    \/ Manager
    \/ DirectSubmit
    \/ DirectRespond
    \/ PrepareScratch
    \/ LoadAudio
    \/ Plan
    \/ MakeChunks
    \/ Export
    \/ SizeCheck
    \/ ChunkSubmit
    \/ ChunkRespond
    \/ DeleteChunk
    \/ CheckPart
    \/ Cleanup
    \/ Return

Spec == Init /\ [][Next]_vars


\* ----------------------------------------------------------------- claims
\* the run has returned a value to its caller
Returned == pc \in {"DONE_OK", "DONE_FAIL"}
\* the run has left the function, by a return or by an exception
Left == pc \in {"DONE_OK", "DONE_FAIL", "RAISED"}
\* the returned transcription calls made on chunks
ChunkCalls == {k \in 1..Len(calls) : calls[k].idx # Whole}
\* some chunk's transcription failed
SomeChunkFailed == \E k \in ChunkCalls : IsNone(calls[k].ret)

\* C1: when the transcription of any one chunk of a split run has failed, by
\* a call that returned None or by one that raised, the run has returned
\* None once it is over.
C1_FailedChunkEndsInNone ==
    (Left /\ route = "SPLIT" /\ (SomeChunkFailed \/ fail_kind = "Client")) =>
        (pc = "DONE_FAIL" /\ result = NoneVal)

\* beside C1: a run in which a chunk's call returned None returns None, and
\* no run in which a chunk's transcription failed hands out a text
C1_FailedChunkReturnsNone ==
    /\ (Returned /\ SomeChunkFailed) => (result = NoneVal /\ pc = "DONE_FAIL")
    /\ (SomeChunkFailed \/ fail_kind = "Client") => result.kind # "str"

\* beside C1: the third chunk failed after two chunks gave text, and None
\* was returned.
C1_Witness ==
    /\ pc = "DONE_FAIL"
    /\ Len(calls) = 3
    /\ ~IsNone(calls[1].ret) /\ calls[1].ret.text # <<>>
    /\ ~IsNone(calls[2].ret)
    /\ IsNone(calls[3].ret) /\ calls[3].idx = 2
    /\ result = NoneVal

\* C2: after any run, on whichever exit path, the scratch directory does not
\* exist when control is back with the caller.
C2_ScratchGoneAfterAnyRun == Left => ~dir_exists

\* C3: the scratch directory is removed also when a step of the split run
\* raises an exception that nothing in the function catches.
C3_ScratchGoneAfterUnexpected == pc = "RAISED" => ~dir_exists

\* C4 as stated: a run that failed with a plan, load or size failure has
\* called the transcription capability for no chunk.
C4_NoCallBeforePlanLoadSizeFailure ==
    (pc = "DONE_FAIL" /\ fail_kind \in {"Plan", "Load", "Size"}) => ChunkCalls = {}

\* C4 amended: a plan or load failure ends the run with no chunk transcribed;
\* a size violation on chunk k ends it with chunk k and every later chunk
\* never submitted, the k chunks before it having been transcribed
\* successfully, so with no chunk transcribed only when k = 0.
C4_CallsBeforeFailure ==
    /\ (fail_kind \in {"Plan", "Load"}) =>
          /\ calls = <<>> /\ exports = <<>> /\ inflight = {}
          /\ pc \in {"DONE_FAIL", "RAISED"}
          /\ pc = "DONE_FAIL" => result = NoneVal
    /\ (fail_kind = "Size") =>
          /\ pc \in {"CLEANUP", "RETURN", "DONE_FAIL"}
          /\ Len(calls) = i
          /\ \A k \in 1..Len(calls) : calls[k].idx = k - 1 /\ ~IsNone(calls[k].ret)
          /\ inflight = {}
          /\ pc = "DONE_FAIL" => result = NoneVal

\* C4 witness: a size violation on the second chunk, after the first was
\* transcribed, ended the run in failure.
C4_Witness ==
    /\ pc = "DONE_FAIL"
    /\ fail_kind = "Size"
    /\ i = 1
    /\ Len(calls) = 1

\* the text the caller expects from the calls k..Len(calls): each answer in
\* turn, a single space between two answers
RECURSIVE ExpectedFrom(_)
ExpectedFrom(k) ==
    IF k > Len(calls) THEN <<>>
    ELSE calls[k].ret.text \o (IF k < Len(calls) THEN <<" ">> ELSE <<>>) \o ExpectedFrom(k + 1)

\* every chunk of the split run was transcribed, each with success
AllChunksTranscribed ==
    /\ route = "SPLIT"
    /\ n_chunks >= 1
    /\ Len(calls) = n_chunks
    /\ \A k \in 1..Len(calls) : calls[k].idx = k - 1 /\ ~IsNone(calls[k].ret)

\* C5: a split run of n >= 1 chunks that all transcribed returns the texts
\* t_0 .. t_(n-1) in index order with one space between neighbours: the
\* result has their total length plus n - 1, and nothing else.
C5_ResultIsInOrderJoin ==
    (Returned /\ AllChunksTranscribed) =>
        /\ result.kind = "str"
        /\ result.text = ExpectedFrom(1)
        /\ pc = "DONE_OK"

\* C5 witness: two chunks answered "a" and "bc" and the run returned "a bc".
C5_Witness ==
    /\ pc = "DONE_OK"
    /\ n_chunks = 2
    /\ calls[1].ret.text = <<"a">>
    /\ calls[2].ret.text = <<"b", "c">>
    /\ result = Str(<<"a", " ", "b", "c">>)

\* the direct branch is the one for sizes under 98% of the hard limit
\* (98% as 49/50)
Under98Percent(size) == size * 50 < WHISPER_API_FILE_SIZE_LIMIT * 49

\* C6: the manager, once it has read the asset's size, takes the direct
\* branch exactly when the size is strictly below 98% of the hard limit, and
\* the split branch for every size at or above it, sizes under the hard limit
\* included.
C6_DirectIffUnder98Percent ==
    (pc # "DECIDING" /\ key_given /\ path_exists) =>
        /\ route \in {"DIRECT", "SPLIT"} \/ (pc = "RAISED" /\ calls = <<>> /\ exports = <<>>)
        /\ route = "DIRECT" => Under98Percent(file_size)
        /\ route = "SPLIT" => ~Under98Percent(file_size)
        /\ route = "DIRECT" => (exports = <<>> /\ removals = <<>> /\ ChunkCalls = {})
        /\ route = "SPLIT" => \A k \in 1..Len(calls) : calls[k].idx # Whole

\* C6 witness: an asset one byte under the hard limit, so over 98% of it, was
\* sent down the split branch.
C6_Witness ==
    /\ file_size = WHISPER_API_FILE_SIZE_LIMIT - 1
    /\ route = "SPLIT"
    /\ pc = "LOAD"
    /\ dir_exists

\* C7: once the transcription of chunk k has failed, no chunk after k is
\* exported or submitted, and what chunks 0..k-1 gave is not returned.
C7_FailFast ==
    \A k \in ChunkCalls :
        IsNone(calls[k].ret) =>
            /\ k = Len(calls)
            /\ inflight = {}
            /\ pc \in {"DELETE", "CHECKPART", "CLEANUP", "RETURN", "DONE_FAIL"}
            /\ \A e \in 1..Len(exports) : exports[e] <= calls[k].idx
            /\ Len(parts) = calls[k].idx
            /\ Returned => result = NoneVal

\* C7 witness: of three chunks the second failed; the third was never
\* exported and the first one's text was not returned.
C7_Witness ==
    /\ pc = "DONE_FAIL"
    /\ n_chunks = 3
    /\ Len(calls) = 2
    /\ IsNone(calls[2].ret)
    /\ exports = <<0, 1>>
    /\ Len(parts) = 1
    /\ result = NoneVal

\* C8: the file of a chunk whose transcription call has returned is on disk
\* only until the removal that follows the call at once; it is gone when the
\* next chunk is exported or submitted and when the end-of-run cleanup starts.
C8_ChunkFileRemovedAfterCall ==
    \A k \in ChunkCalls :
        HasFile(files, calls[k].idx) => (pc = "DELETE" /\ k = Len(calls))

\* the removal of what has failed
RemovalFailed(what) ==
    \E r \in 1..Len(removals) : removals[r].what = what /\ ~removals[r].ok

\* beside C8: the removal is attempted at once after the call; the file of a
\* chunk whose call has returned is on disk after that only if the removal
\* has failed
C8_ChunkFileRemovedUnlessRemovalFailed ==
    \A k \in ChunkCalls :
        /\ (k < Len(calls) \/ pc # "DELETE") =>
              \E r \in 1..Len(removals) : removals[r].what = calls[k].idx
        /\ HasFile(files, calls[k].idx) =>
              \/ pc = "DELETE" /\ k = Len(calls)
              \/ RemovalFailed(calls[k].idx)

\* C9: every chunk submitted has a size strictly below the hard limit; a
\* chunk at or above it ends the run in failure without being submitted and
\* without any later chunk being exported or submitted.
C9_OnlyChunksUnderLimitSubmitted ==
    /\ \A k \in ChunkCalls : calls[k].size < WHISPER_API_FILE_SIZE_LIMIT
    /\ \A x \in inflight :
          x # Whole => (HasFile(files, x) /\ SizeOf(files, x) < WHISPER_API_FILE_SIZE_LIMIT)
    /\ (pc \in {"SUBMIT", "WAIT"}) => chunk_size < WHISPER_API_FILE_SIZE_LIMIT
    /\ \A f \in files :
          (f.size >= WHISPER_API_FILE_SIZE_LIMIT) =>
              (pc \in {"SIZECHECK", "RAISED", "CLEANUP", "RETURN", "DONE_FAIL"} /\ f.idx = i)
    /\ (fail_kind = "Size") =>
          /\ chunk_size >= WHISPER_API_FILE_SIZE_LIMIT
          /\ pc \in {"CLEANUP", "RETURN", "DONE_FAIL"}
          /\ \A k \in ChunkCalls : calls[k].idx < i
          /\ \A e \in 1..Len(exports) : exports[e] <= i
          /\ Returned => result = NoneVal

\* C9 witness: the second chunk came out at exactly the hard limit and the
\* run failed with only the first chunk submitted.
C9_Witness ==
    /\ pc = "DONE_FAIL"
    /\ fail_kind = "Size"
    /\ chunk_size = WHISPER_API_FILE_SIZE_LIMIT
    /\ i = 1
    /\ n_chunks = 3
    /\ Len(calls) = 1
    /\ exports = <<0, 1>>

\* C10: a run that failed on any path returns None, never a string; a string,
\* the empty one included, is returned only by a run all of whose
\* transcription calls succeeded.
C10_FailureIsNoneNotEmptyString ==
    Returned =>
        /\ result.kind \in {"None", "str"}
        /\ (fail_kind # "none") => result = NoneVal
        /\ (pc = "DONE_FAIL") <=> (result = NoneVal)
        /\ (result.kind = "str") =>
              /\ fail_kind = "none"
              /\ all_ok
              /\ Len(calls) >= 1
              /\ \A k \in 1..Len(calls) : ~IsNone(calls[k].ret)

\* C10 witness: an export failed after a chunk had given the empty text, and
\* None was returned.
C10_Witness ==
    /\ pc = "DONE_FAIL"
    /\ fail_kind = "Export"
    /\ parts = << <<>> >>
    /\ result = NoneVal

\* C11: on the direct path exactly one transcription call is made, on the
\* whole asset, and the run ends by returning what the call gave, text on
\* success and None on any failure; no chunk file is written or removed.
C11_DirectPathSingleCall ==
    (route = "DIRECT") =>
        /\ exports = <<>> /\ removals = <<>>
        /\ \A f \in files : f.old
        /\ inflight \subseteq {Whole}
        /\ Len(calls) <= 1
        /\ \A k \in 1..Len(calls) : calls[k].idx = Whole /\ calls[k].size = file_size
        /\ pc \in {"DIRECT", "DIRECT_WAIT", "DONE_OK", "DONE_FAIL"}
        /\ Returned =>
              /\ Len(calls) = 1
              /\ result = calls[1].ret
              /\ (pc = "DONE_OK") <=> (calls[1].ret.kind = "str")
              /\ (pc = "DONE_FAIL") <=> (calls[1].ret = NoneVal)

\* the plan is rejected, in the claim's words: the bitrate gives no positive
\* bytes per second, or the computed chunk duration is at most 1000 ms
ComputedChunkLength == [c \in Configs |-> ChunkLengthMs(c.budget, c.bitrate)]
RejectedAsClaimed(c) ==
    \/ c.bitrate <= 0
    \/ ComputedChunkLength[c] <= 1000

\* the run has gone through the planning step
Planned ==
    /\ route = "SPLIT"
    /\ pc \notin {"SPLITTING", "LOAD", "PLAN"}
    /\ fail_kind \notin {"Makedirs", "Load"}

\* C13: the plan is rejected exactly when the bitrate gives a non-positive
\* bytes-per-second or the computed chunk length is at or below 1000 ms; a
\* rejected plan ends the run in failure (None is returned, or the removal
\* of the scratch directory raises) with nothing chunked, exported or
\* transcribed, an accepted one goes on to chunk the audio.
C13_PlanRejection ==
    Planned =>
        /\ (fail_kind = "Plan") <=> RejectedAsClaimed(cfg)
        /\ (fail_kind = "Plan") =>
              /\ pc \in {"DONE_FAIL", "RAISED"}
              /\ pc = "DONE_FAIL" => result = NoneVal
              /\ result.kind # "str"
              /\ n_chunks = 0 /\ chunk_len = 0
              /\ exports = <<>> /\ calls = <<>> /\ inflight = {}
        /\ (fail_kind # "Plan") => chunk_len > 1000

\* C13 witness: a budget that gives chunks of exactly 1000 ms was rejected.
C13_Witness ==
    /\ cfg.budget = 25264
    /\ cfg.bitrate = MP3_BITRATE_KBPS
    /\ fail_kind = "Plan"
    /\ pc = "DONE_FAIL"

\* C15: chunks are submitted one at a time, in increasing index order, each
\* at most once: the calls that have returned are those on chunks 0, 1, 2, ..
\* in that order, all but the last with success, and a call is in flight only
\* on the chunk that follows them.
C15_SequentialNoRetry ==
    (route = "SPLIT") =>
        /\ Cardinality(inflight) <= 1
        /\ \A k \in 1..Len(calls) : calls[k].idx = k - 1
        /\ \A k \in 1..Len(calls) : k < Len(calls) => ~IsNone(calls[k].ret)
        /\ \A x \in inflight :
              /\ x = Len(calls)
              /\ x = i
              /\ pc = "WAIT"
              /\ \A k \in 1..Len(calls) : ~IsNone(calls[k].ret)
        /\ (pc = "WAIT") => inflight = {i}
        /\ Len(calls) <= n_chunks

\* C15 witness: the call on the third chunk is in flight after the calls on
\* the first two have returned text.
C15_Witness ==
    /\ pc = "WAIT"
    /\ inflight = {2}
    /\ Len(calls) = 2
    /\ calls[1].idx = 0 /\ calls[2].idx = 1

\* C16: a failed export of chunk k stops the run at chunk k: neither it nor
\* a later chunk is submitted or exported, the scratch directory and any
\* partial file in it are removed, and None is returned.
C16_ExportFailureAborts ==
    (fail_kind = "Export") =>
        /\ pc \in {"CLEANUP", "RETURN", "DONE_FAIL"}
        /\ ~all_ok
        /\ inflight = {}
        /\ \A k \in ChunkCalls : calls[k].idx < i /\ ~IsNone(calls[k].ret)
        /\ Len(exports) = i + 1 /\ exports[Len(exports)] = i
        /\ (pc # "CLEANUP") => (~dir_exists /\ files = {})
        /\ (pc = "DONE_FAIL") => result = NoneVal

\* C16 witness: the export of the second chunk failed after the first had
\* been transcribed; the run returned None with the scratch directory gone.
C16_Witness ==
    /\ pc = "DONE_FAIL"
    /\ fail_kind = "Export"
    /\ i = 1
    /\ Len(calls) = 1
    /\ exports = <<0, 1>>
    /\ ~dir_exists
    /\ result = NoneVal

\* every chunk of the run was exported, passed the size test and was
\* transcribed with success
EveryChunkWentThrough ==
    /\ n_chunks >= 1
    /\ Len(exports) = n_chunks
    /\ \A e \in 1..Len(exports) : exports[e] = e - 1
    /\ fail_kind \notin {"Export", "Size"}
    /\ Len(calls) = n_chunks
    /\ \A k \in 1..Len(calls) : calls[k].idx = k - 1 /\ ~IsNone(calls[k].ret)

\* C17: a split run returns a transcript if and only if the audio gave at
\* least one chunk and every chunk was exported, passed the size test and was
\* transcribed; a run over audio that gives no chunk returns None although no
\* step failed.
C17_TranscriptIffAllChunks ==
    (Returned /\ route = "SPLIT") =>
        /\ (result.kind = "str") <=> EveryChunkWentThrough
        /\ (result = NoneVal) <=> ~EveryChunkWentThrough
        /\ (fail_kind = "Empty") <=> (all_ok /\ n_chunks = 0 /\ chunk_len > 0)
        /\ (fail_kind = "Empty") => (result = NoneVal /\ exports = <<>> /\ calls = <<>>)

\* C17 witness: audio of length zero gave no chunk; no step failed and None
\* was returned.
C17_Witness ==
    /\ pc = "DONE_FAIL"
    /\ route = "SPLIT"
    /\ audio_len = 0
    /\ chunk_len > 0
    /\ n_chunks = 0
    /\ all_ok
    /\ result = NoneVal

\* the state of the orchestrator's state machine a position belongs to
Phase(p) ==
    CASE p = "DECIDING" -> "DECIDING"
      [] p \in {"DIRECT", "DIRECT_WAIT"} -> "DIRECT"
      [] p \in {"SPLITTING", "LOAD", "PLAN", "CHUNK"} -> "SPLITTING"
      [] p \in {"EXPORT", "SIZECHECK", "SUBMIT", "WAIT", "DELETE", "CHECKPART"} -> "TRANSCRIBING"
      [] p \in {"CLEANUP", "RETURN"} -> "AGGREGATING"
      [] OTHER -> p
\* the order in which the states can be passed through
PhaseRank(ph) ==
    CASE ph = "DECIDING" -> 0
      [] ph \in {"DIRECT", "SPLITTING"} -> 1
      [] ph = "TRANSCRIBING" -> 2
      [] ph = "AGGREGATING" -> 3
      [] OTHER -> 4

\* the run under the scheduling of a sequential program: a step that can be
\* taken is taken, every call returns
FairSpec == Spec /\ WF_vars(Next)

\* C18: every run that has stopped has stopped in DONE_OK or DONE_FAIL.
C18_StopsOnlyWhenDone == Returned \/ ENABLED Next

\* beside C18: a state of the state machine that has been left is not
\* entered again, and the loop index never goes back
C18_NoPhaseReentered ==
    [][/\ Phase(pc') # Phase(pc) => PhaseRank(Phase(pc')) > PhaseRank(Phase(pc))
       /\ i' >= i
       /\ Len(exports') >= Len(exports)]_vars

\* how far a position is along the code
PcRank(p) ==
    CASE p = "DECIDING" -> 0
      [] p \in {"DIRECT", "SPLITTING"} -> 1
      [] p \in {"DIRECT_WAIT", "LOAD"} -> 2
      [] p = "PLAN" -> 3
      [] p = "CHUNK" -> 4
      [] p = "EXPORT" -> 5
      [] p = "SIZECHECK" -> 6
      [] p = "SUBMIT" -> 7
      [] p = "WAIT" -> 8
      [] p = "DELETE" -> 9
      [] p = "CHECKPART" -> 10
      [] p = "CLEANUP" -> 11
      [] p = "RETURN" -> 12
      [] OTHER -> 13
\* how far the run has come: the rounds of the loop, each of fewer than 16
\* positions, and the position
Progress == i * 16 + PcRank(pc)

\* beside C18: every step takes the run further and the way is bounded, so
\* no run goes on for ever: it leaves the function by a return or by an
\* exception
C18_EveryStepAdvances ==
    [][/\ Progress' > Progress
       /\ Progress' <= MaxChunks * 16 + PcRank("DONE_OK")]_vars

\* C19: at every point of a split run at most one chunk file is in the
\* scratch directory, and none when a chunk is about to be exported.
C19_AtMostOneChunkFile ==
    (route = "SPLIT" /\ pc \notin {"SPLITTING", "DONE_OK", "DONE_FAIL", "RAISED"}) =>
        /\ Cardinality(files) <= 1
        /\ \A f \in files : f.idx = i
        /\ (pc = "EXPORT") => files = {}

\* beside C19: of the chunk files this run has written, at most one whose
\* removal has not failed is on disk, and none when a chunk is about to be
\* exported
C19_AtMostOneUnlessRemovalFailed ==
    LET own == {f \in files : ~f.old /\ ~RemovalFailed(f.idx)}
    IN /\ Cardinality(own) <= 1
       /\ \A f \in own : f.idx = i
       /\ (pc = "EXPORT") => own = {}

\* ------------------------------------------------- the planner on its own
\* the largest budget tried is MaxBudgetSteps * 1000000 + 1 bytes
MaxBudgetSteps == 25

\* bitrates yt-dlp and ffmpeg produce MP3 at, kbit/s
PlanBitrates == {8, 32, 38, 64, 76, 128, MP3_BITRATE_KBPS, 256, 320}

\* byte budgets strictly below the hard limit; 1060, 5005, 10010, 26880,
\* 480000 and 24000000 make budget * 38 / (bitrate * 5) an integer for some
\* bitrates
PlanBudgets ==
    {k * 1000000 + 1 : k \in 0..MaxBudgetSteps}
        \cup {1001, 1060, 5005, 10010, 24001, 25263, 25264, 25290, 26880, 480000, 24000000,
              SAFE_CHUNK_SIZE_BYTES, WHISPER_API_FILE_SIZE_LIMIT - 1}

\* no run of the manager is under way
RunIdle ==
    /\ pc = "IDLE"
    /\ cfg = [bitrate |-> MP3_BITRATE_KBPS, budget |-> SAFE_CHUNK_SIZE_BYTES]
    /\ key_given = TRUE
    /\ path_exists = TRUE
    /\ file_size = 0
    /\ dir_exists = FALSE
    /\ files = {}
    /\ audio_len = 0
    /\ chunk_len = 0
    /\ n_chunks = 0
    /\ i = 0
    /\ parts = <<>>
    /\ all_ok = TRUE
    /\ part = NoneVal
    /\ chunk_size = 0
    /\ route = "none"
    /\ inflight = {}
    /\ calls = <<>>
    /\ exports = <<>>
    /\ fail_kind = "none"
    /\ result = Pending
    /\ removals = <<>>

InitPlan ==
    /\ RunIdle
    /\ p_pc = "input"
    /\ p_budget \in {b \in PlanBudgets : b < WHISPER_API_FILE_SIZE_LIMIT}
    /\ p_bitrate \in PlanBitrates
    /\ p_ms = 0
    /\ NamesIdle
    /\ BatchIdle

\* lines 147-159 on the budget and the bitrate given
PlanChunkLength ==
    /\ p_pc = "input"
    /\ IF PlanRejected(p_budget, p_bitrate)
         THEN p_pc' = "rejected" /\ UNCHANGED p_ms
         ELSE p_pc' = "accepted" /\ p_ms' = ChunkLengthMs(p_budget, p_bitrate)
    /\ UNCHANGED <<p_budget, p_bitrate>>
    /\ UNCHANGED <<run_vars, name_vars, batch_vars>>

NextPlan == PlanChunkLength

SpecPlan == InitPlan /\ [][NextPlan]_vars

\* C14: for a positive bitrate and a budget below the hard limit, an accepted
\* plan's chunk length times the bytes per second is at most 95% of the budget
\* (ms * bitrate * 125 / 1000 <= budget * 95 / 100, that is
\* ms * bitrate * 5 <= budget * 38), so the chunk's bytes, ms * bitrate / 8,
\* stay strictly below the hard limit.
C14_PlannedChunkUnderBudget ==
    (p_pc = "accepted") =>
        /\ p_bitrate > 0 /\ p_budget < WHISPER_API_FILE_SIZE_LIMIT
        /\ p_ms > 1000
        /\ p_ms * p_bitrate * 5 <= p_budget * 38
        /\ p_ms * p_bitrate < 8 * WHISPER_API_FILE_SIZE_LIMIT

\* C14 witness: the shipped budget and bitrate give chunks of 996147 ms,
\* 23907528 bytes at 24000 bytes per second.
C14_Witness ==
    /\ p_pc = "accepted"
    /\ p_budget = SAFE_CHUNK_SIZE_BYTES
    /\ p_bitrate = MP3_BITRATE_KBPS
    /\ p_ms = 996147

\* ------------------------------------------ scratch and chunk file names
\* the longest asset path tried, in characters
MaxPathLen == 3

\* characters of asset paths: letters, the separator, the dot, the
\* underscore, a character sanitize_filename replaces, and the space
PathChars == {"a", "b", "/", ".", "_", ":", " "}

\* DOWNLOAD_FOLDER, line 13
DOWNLOAD_FOLDER ==
    <<"d", "o", "w", "n", "l", "o", "a", "d", "e", "d", "_",
      "a", "u", "d", "i", "o", "_", "f", "i", "l", "e", "s">>

\* the position of the last occurrence of c in s, 0 when there is none
LastIndexOf(s, c) ==
    IF \E k \in 1..Len(s) : s[k] = c
      THEN CHOOSE k \in 1..Len(s) : s[k] = c /\ \A m \in (k + 1)..Len(s) : s[m] # c
      ELSE 0

\* os.path.basename: what follows the last separator
Basename(path) == SubSeq(path, LastIndexOf(path, "/") + 1, Len(path))

\* os.path.splitext(name)[0]: the name up to its last dot, unless nothing
\* but dots stands before that dot
SplitextRoot(name) ==
    LET d == LastIndexOf(name, ".")
    IN IF d > 0 /\ \E k \in 1..(d - 1) : name[k] # "."
         THEN SubSeq(name, 1, d - 1)
         ELSE name

\* line 32: each of < > : " / \ | ? * becomes an underscore
ReplaceSpecial(name) ==
    [k \in 1..Len(name) |->
        IF name[k] \in {"<", ">", ":", "\"", "/", "\\", "|", "?", "*"} THEN "_" ELSE name[k]]

\* line 33: a run of underscores becomes one underscore
RECURSIVE CollapseUnderscores(_)
CollapseUnderscores(name) ==
    IF Len(name) <= 1 THEN name
    ELSE IF name[1] = "_" /\ name[2] = "_" THEN CollapseUnderscores(Tail(name))
    ELSE <<name[1]>> \o CollapseUnderscores(Tail(name))

\* line 34: strip('_ ')
RECURSIVE StripEnds(_)
StripEnds(name) ==
    IF Len(name) = 0 THEN name
    ELSE IF name[1] \in {"_", " "} THEN StripEnds(Tail(name))
    ELSE IF name[Len(name)] \in {"_", " "} THEN StripEnds(SubSeq(name, 1, Len(name) - 1))
    ELSE name

\* sanitize_filename, lines 23-37, on a name that is not None
sanitize_filename(name) ==
    LET stripped == StripEnds(CollapseUnderscores(ReplaceSpecial(name)))
    IN IF Len(stripped) = 0
         THEN <<"u", "n", "t", "i", "t", "l", "e", "d", "_", "v", "i", "d", "e", "o">>
         ELSE stripped

\* line 134: base_full_audio_name
BaseName(path) == sanitize_filename(SplitextRoot(Basename(path)))

\* line 136: os.path.join(DOWNLOAD_FOLDER, f"{base_full_audio_name}_chunks")
ChunksSubfolder(path) ==
    DOWNLOAD_FOLDER \o <<"/">> \o BaseName(path) \o <<"_", "c", "h", "u", "n", "k", "s">>

\* the decimal digit of a chunk index below ten
Digit(idx) == <<"0", "1", "2", "3", "4", "5", "6", "7", "8", "9">>[idx + 1]

\* line 168: os.path.join(chunks_subfolder, f"chunk_{base_full_audio_name}_{i}.mp3")
ChunkFilename(path, idx) ==
    ChunksSubfolder(path) \o <<"/", "c", "h", "u", "n", "k", "_">> \o BaseName(path)
        \o <<"_", Digit(idx), ".", "m", "p", "3">>

\* the strings over PathChars of length 1..n
RECURSIVE StringsUpTo(_)
StringsUpTo(n) ==
    IF n = 0 THEN {}
    ELSE StringsUpTo(n - 1) \cup [1..n -> PathChars]

\* paths that name a file: they do not end in the separator
AssetPaths == {q \in StringsUpTo(MaxPathLen) : q[Len(q)] # "/"}

InitNames ==
    /\ RunIdle
    /\ PlanIdle
    /\ nm_pc = "input"
    /\ path_a \in AssetPaths
    /\ path_b \in AssetPaths
    /\ dir_a = <<>>
    /\ dir_b = <<>>
    /\ BatchIdle

\* lines 134-137 in each of the two runs
DeriveNames ==
    /\ nm_pc = "input"
    /\ dir_a' = ChunksSubfolder(path_a)
    /\ dir_b' = ChunksSubfolder(path_b)
    /\ nm_pc' = "derived"
    /\ UNCHANGED <<path_a, path_b>>
    /\ UNCHANGED <<run_vars, plan_vars, batch_vars>>

NextNames == DeriveNames

SpecNames == InitNames /\ [][NextNames]_vars

\* C12: two runs over distinct asset paths have distinct scratch directories
\* and no chunk file name in common.
C12_DistinctPathsDistinctNames ==
    (nm_pc = "derived" /\ path_a # path_b) =>
        /\ dir_a # dir_b
        /\ \A j, k \in 0..(MaxChunks - 1) : ChunkFilename(path_a, j) # ChunkFilename(path_b, k)

\* ------------------------------------------------- the batch over URLs
\* the most URLs in the links file
MaxUrls == 2

InitBatch ==
    /\ RunIdle
    /\ PlanIdle
    /\ NamesIdle
    /\ b_pc = "LOOP"
    /\ b_key \in BOOLEAN
    /\ n_urls \in 1..MaxUrls
    /\ url_i = 0
    /\ audio_files = {}
    /\ saved = {}
    /\ outcomes = <<>>

\* lines 249-255: download_audio gave a file that exists; the manager is
\* called on it, and finds the scratch directory of that asset as an earlier
\* run over it has left it
Download ==
    /\ b_pc = "LOOP"
    /\ url_i < n_urls
    /\ pc = "IDLE"
    /\ audio_files' = audio_files \cup {url_i}
    /\ pc' = "DECIDING"
    /\ key_given' = b_key
    /\ path_exists' = TRUE
    /\ file_size' \in FileSizes
    /\ dir_exists' \in BOOLEAN
    /\ files' \in (IF dir_exists' THEN StaleFileSets ELSE {{}})
    /\ b_pc' = "RUNNING"
    /\ UNCHANGED <<cfg, audio_len, chunk_len, n_chunks, i, parts,
                   all_ok, part, chunk_size, route, inflight, calls, exports,
                   fail_kind, result, removals>>
    /\ UNCHANGED <<b_key, n_urls, url_i, saved, outcomes>>
    /\ UNCHANGED <<plan_vars, name_vars>>

\* lines 249-251, 267-268: download_audio returned None and the URL is
\* skipped. The download may have written a file all the same: yt-dlp gave
\* a non-zero exit code after writing it (line 93), the file has another
\* extension than .mp3 (line 105), or the conversion raised DownloadError
\* (line 109). The os.remove of line 263 is on the other branch only, so
\* such a file stays on disk.
SkipDownload ==
    /\ b_pc = "LOOP"
    /\ url_i < n_urls
    /\ \E left \in BOOLEAN :
          audio_files' = IF left THEN audio_files \cup {url_i} ELSE audio_files
    /\ outcomes' = Append(outcomes, "skipped")
    /\ url_i' = url_i + 1
    /\ UNCHANGED <<b_pc, b_key, n_urls, saved>>
    /\ UNCHANGED <<run_vars, plan_vars, name_vars>>

\* lines 44-45: os.makedirs(DOWNLOAD_FOLDER) in download_audio is inside no
\* try block; when it fails the exception leaves the loop
DownloadRaises ==
    /\ b_pc = "LOOP"
    /\ url_i < n_urls
    /\ b_pc' = "ABORTED"
    /\ UNCHANGED <<b_key, n_urls, url_i, audio_files, saved, outcomes>>
    /\ UNCHANGED <<run_vars, plan_vars, name_vars>>

\* lines 257-266: the manager returned; the transcript is saved when it is
\* not None (the write itself may fail, lines 225-230), the main audio file
\* is removed unless the removal fails (lines 262-266 print the error and go
\* on), and the loop goes on
AfterTranscription ==
    /\ b_pc = "RUNNING"
    /\ Returned
    /\ IF IsNone(result)
         THEN /\ saved' = saved
              /\ outcomes' = Append(outcomes, "failed")
         ELSE /\ \E written \in BOOLEAN :
                    saved' = IF written THEN saved \cup {url_i} ELSE saved
              /\ outcomes' = Append(outcomes, "transcribed")
    /\ \E removed \in BOOLEAN :
          audio_files' = IF removed THEN audio_files \ {url_i} ELSE audio_files
    /\ url_i' = url_i + 1
    /\ b_pc' = "LOOP"
    /\ pc' = "IDLE"
    /\ key_given' = TRUE
    /\ file_size' = 0
    /\ dir_exists' = FALSE
    /\ files' = {}
    /\ audio_len' = 0
    /\ chunk_len' = 0
    /\ n_chunks' = 0
    /\ i' = 0
    /\ parts' = <<>>
    /\ all_ok' = TRUE
    /\ part' = NoneVal
    /\ chunk_size' = 0
    /\ route' = "none"
    /\ inflight' = {}
    /\ calls' = <<>>
    /\ exports' = <<>>
    /\ fail_kind' = "none"
    /\ result' = Pending
    /\ removals' = <<>>
    /\ UNCHANGED <<cfg, path_exists>>
    /\ UNCHANGED <<b_key, n_urls>>
    /\ UNCHANGED <<plan_vars, name_vars>>

\* lines 217-218: os.makedirs(TRANSCRIPTION_FOLDER) in save_transcription is
\* inside no try block; when it fails the exception leaves the loop
SaveRaises ==
    /\ b_pc = "RUNNING"
    /\ pc = "DONE_OK"
    /\ b_pc' = "ABORTED"
    /\ UNCHANGED <<b_key, n_urls, url_i, audio_files, saved, outcomes>>
    /\ UNCHANGED <<run_vars, plan_vars, name_vars>>

\* line 255 stands in no try: an exception that leaves the manager leaves
\* process_youtube_links_file too
Propagate ==
    /\ b_pc = "RUNNING"
    /\ pc = "RAISED"
    /\ b_pc' = "ABORTED"
    /\ UNCHANGED <<b_key, n_urls, url_i, audio_files, saved, outcomes>>
    /\ UNCHANGED <<run_vars, plan_vars, name_vars>>

\* line 245: the loop is over
Finish ==
    /\ b_pc = "LOOP"
    /\ url_i = n_urls
    /\ b_pc' = "FINISHED"
    /\ UNCHANGED <<b_key, n_urls, url_i, audio_files, saved, outcomes>>
    /\ UNCHANGED <<run_vars, plan_vars, name_vars>>

NextBatch ==
    \/ Download
    \/ SkipDownload
    \/ DownloadRaises
    \/ Manager
    \/ DirectSubmit
    \/ DirectRespond
    \/ PrepareScratch
    \/ LoadAudio
    \/ Plan
    \/ MakeChunks
    \/ Export
    \/ SizeCheck
    \/ ChunkSubmit
    \/ ChunkRespond
    \/ DeleteChunk
    \/ CheckPart
    \/ Cleanup
    \/ Return
    \/ AfterTranscription
    \/ SaveRaises
    \/ Propagate
    \/ Finish

SpecBatch == InitBatch /\ [][NextBatch]_vars

\* the batch has stopped, by the end of the loop or by an exception
BatchStopped == b_pc \in {"FINISHED", "ABORTED"}

\* a transcript is saved only for a URL whose run returned a transcript
C20_SavedOnlyWithTranscript ==
    \A k \in saved : k < Len(outcomes) /\ outcomes[k + 1] = "transcribed"

\* C20: no asset stops the batch: when the batch stops every URL has been
\* handled, a transcript is saved only for a URL whose run returned one, and
\* no downloaded main audio file is left.
C20_BatchHandlesEveryUrl ==
    /\ BatchStopped => (Len(outcomes) = n_urls /\ audio_files = {})
    /\ C20_SavedOnlyWithTranscript

====
